---- MODULE Spec2Model ----
(***************************************************************************)
(* Fan-out document-processing orchestration of pipeline/function_app.py:  *)
(* the orchestrator `run` fans a batch out to one `process_blob`           *)
(* sub-orchestration per entry; each sub-orchestration calls the three     *)
(* activities runDocIntel, callAoai and writeToBlob with a retry policy.   *)
(*                                                                         *)
(* The activities catch the errors of their external calls and return a    *)
(* failure VALUE (None / {"success": False}); only runDocIntel can raise,  *)
(* and only on an entry that is not a dict.  call_activity_with_retry      *)
(* retries an activity only when it raises.                                *)
(***************************************************************************)
EXTENDS Integers, Sequences, FiniteSets, TLC

\* Largest batch handed to the orchestrator.
MaxBatch == 2

None == "<None>"

(***************************************************************************)
(* Text.  A Python str is a sequence of one-character strings; NoneText is *)
(* Python's None where a str is expected.                                  *)
(***************************************************************************)
NoneText == <<"<None>">>

Whitespace == {" ", "\n"}

\* str.strip(chars) / str.strip()
RECURSIVE LStripChars(_, _)
LStripChars(t, S) ==
    IF t # <<>> /\ t[1] \in S THEN LStripChars(Tail(t), S) ELSE t

RECURSIVE RStripChars(_, _)
RStripChars(t, S) ==
    IF t # <<>> /\ t[Len(t)] \in S THEN RStripChars(SubSeq(t, 1, Len(t) - 1), S) ELSE t

StripChars(t, S) == RStripChars(LStripChars(t, S), S)
Strip(t) == StripChars(t, Whitespace)

\* str.startswith
StartsWith(t, prefix) ==
    Len(t) >= Len(prefix) /\ SubSeq(t, 1, Len(prefix)) = prefix

\* str.lower on the letters the model uses
LowerChar(ch) ==
    IF ch = "J" THEN "j" ELSE IF ch = "S" THEN "s"
    ELSE IF ch = "O" THEN "o" ELSE IF ch = "N" THEN "n" ELSE ch
Lower(t) == [k \in 1..Len(t) |-> LowerChar(t[k])]

\* str.rfind(ch) + 1: the last position of ch in t, 0 when absent.
RFind(t, ch) ==
    IF \E k \in 1..Len(t) : t[k] = ch
    THEN CHOOSE k \in 1..Len(t) : t[k] = ch /\ \A j \in (k + 1)..Len(t) : t[j] # ch
    ELSE 0

\* os.path.basename
Basename(path) == SubSeq(path, RFind(path, "/") + 1, Len(path))

\* os.path.splitext(path)[0]: the last dot starts the extension unless only
\* dots stand between it and the start of the file name.
SplitextRoot(path) ==
    LET sepIndex == RFind(path, "/")
        dotIndex == RFind(path, ".")
    IN  IF dotIndex > sepIndex
           /\ \E k \in (sepIndex + 1)..(dotIndex - 1) : path[k] # "."
        THEN SubSeq(path, 1, dotIndex - 1)
        ELSE path

\* Blob names used in the entries of a batch: "d/a.p", "a.p" and ".b".
Names == {<<"d", "/", "a", ".", "p">>, <<"a", ".", "p">>, <<".", "b">>}

\* os.path.splitext(os.path.basename(name))[0]
SourceFile(name) == SplitextRoot(Basename(name))

\* An entry of the orchestrator's input: a document reference (a dict with
\* a name) or a value that is not a dict; `run` does not look at its entries.
DocumentReferences == {[isdict |-> TRUE, name |-> n] : n \in Names}
NotADict == [isdict |-> FALSE, name |-> NoneText]
Entries == DocumentReferences \cup {NotADict}

RECURSIVE SeqsUpTo(_, _)
SeqsUpTo(S, n) ==
    IF n = 0 THEN {<<>>}
    ELSE LET shorter == SeqsUpTo(S, n - 1)
         IN  shorter \cup {Append(q, e) : q \in {x \in shorter : Len(x) = n - 1}, e \in S}

Batches == SeqsUpTo(Entries, MaxBatch)

Stages == {"runDocIntel", "callAoai", "writeToBlob"}

\* RetryOptions(first_retry_interval_in_milliseconds, max_number_of_attempts)
\* with the two attributes the code sets afterwards.
doc_retry ==
    [first_retry_interval_in_milliseconds |-> 5, max_number_of_attempts |-> 3,
     backoff_coefficient |-> 2, max_retry_interval |-> 30000]
aoai_retry ==
    [first_retry_interval_in_milliseconds |-> 10, max_number_of_attempts |-> 3,
     backoff_coefficient |-> 2, max_retry_interval |-> 60000]
write_retry ==
    [first_retry_interval_in_milliseconds |-> 5, max_number_of_attempts |-> 5,
     backoff_coefficient |-> 2, max_retry_interval |-> 30000]

RetryPolicy(s) ==
    IF s = "runDocIntel" THEN doc_retry
    ELSE IF s = "callAoai" THEN aoai_retry
    ELSE write_retry

MaxAttempts(s) == RetryPolicy(s).max_number_of_attempts

(***************************************************************************)
(* External collaborators: what one call of each can produce.              *)
(***************************************************************************)
ExtError == <<"<raises>">>
NotCalled == <<"<not called>">>

\* get_blob_content + begin_analyze_document: the joined paragraphs (which
\* may be the empty string) or an exception (also: no paragraphs at all,
\* which leaves `paragraphs` unbound and raises inside the try block).
ExtractOutcomes == {<<"t">>, <<>>, ExtError}

\* run_prompt: the assistant message, or None when the API call raised.
\* "{}" is a JSON response, " " a blank one.
PromptOutcomes == {<<"{", "}">>, <<" ">>, NoneText}

\* write_to_blob: returns True or raises.
WriteOutcomes == {<<"True">>, ExtError}

ExternalOutcomes(s) ==
    IF s = "runDocIntel" THEN ExtractOutcomes
    ELSE IF s = "callAoai" THEN PromptOutcomes
    ELSE WriteOutcomes

(***************************************************************************)
(* Activities, as functions of their input and of the outcome of their     *)
(* external call.  Each yields: raised (the activity raised), value (its   *)
(* return value), called (the external operation was invoked).             *)
(***************************************************************************)
NoTaskResult == [success |-> FALSE, error |-> None, blob_name |-> NoneText, output_blob |-> <<>>]

\* runDocIntel.extract_text_from_blob
RunDocIntel(blobObj, outcome) ==
    IF ~blobObj.isdict
    THEN [raised |-> TRUE, error |-> "TypeError", value |-> NoneText, called |-> FALSE]
    ELSE IF outcome = ExtError
    THEN [raised |-> FALSE, error |-> None, value |-> NoneText, called |-> TRUE]
    ELSE [raised |-> FALSE, error |-> None, value |-> outcome, called |-> TRUE]

\* json.loads followed by json.dumps(..., separators=(",", ":")) on the JSON
\* texts the model's alphabet can spell: numbers written with the digit 1,
\* arrays of at most one element and the empty object, with whitespace
\* allowed around every token.  NotJson when json.loads raises.
NotJson == <<"<JSONDecodeError>">>

RECURSIVE JsonRoundTrip(_)
JsonRoundTrip(t) ==
    LET s == Strip(t)
    IN  IF s = <<>> THEN NotJson
        ELSE IF \A k \in 1..Len(s) : s[k] = "1" THEN s
        ELSE IF Len(s) >= 2 /\ s[1] = "{" /\ s[Len(s)] = "}"
        THEN IF Strip(SubSeq(s, 2, Len(s) - 1)) = <<>> THEN <<"{", "}">> ELSE NotJson
        ELSE IF Len(s) >= 2 /\ s[1] = "[" /\ s[Len(s)] = "]"
        THEN LET inner == Strip(SubSeq(s, 2, Len(s) - 1))
                 v == JsonRoundTrip(inner)
             IN  IF inner = <<>> THEN <<"[", "]">>
                 ELSE IF v = NotJson THEN NotJson
                 ELSE <<"[">> \o v \o <<"]">>
        ELSE NotJson

\* The grave accent, written out because the character cannot stand in a
\* TLA+ string.
Backtick == "<backtick>"

Fence == <<Backtick, Backtick, Backtick>>
JsonTag == <<"j", "s", "o", "n">>

\* The fence removed but the language tag left in place.
NormalizeResponse_KeepTag(resp) ==
    LET stripped == Strip(resp)
        unfenced == StripChars(stripped, {Backtick})
        trimmed == IF StartsWith(stripped, Fence) THEN unfenced ELSE stripped
        round == JsonRoundTrip(trimmed)
    IN  IF round # NotJson THEN round ELSE trimmed

\* callAoai.run from `trimmed = response_content.strip()` to `return json_str`.
NormalizeResponse(resp) ==
    LET stripped == Strip(resp)
        unfenced == StripChars(stripped, {Backtick})
        trimmed ==
            IF StartsWith(stripped, Fence)
            THEN IF StartsWith(Lower(unfenced), JsonTag)
                 THEN Strip(SubSeq(unfenced, 5, Len(unfenced)))
                 ELSE unfenced
            ELSE stripped
        round == JsonRoundTrip(trimmed)
    IN  IF round # NotJson THEN round ELSE trimmed

\* callAoai asking the model before it looks at text_result.
CallAoai_PromptFirst(inputData, outcome) ==
    IF inputData.text_result \in {NoneText, <<>>} \/ outcome = NoneText
    THEN [raised |-> FALSE, error |-> None, value |-> NoneText, called |-> TRUE]
    ELSE [raised |-> FALSE, error |-> None, value |-> NormalizeResponse(outcome), called |-> TRUE]

\* callAoai.run
CallAoai(inputData, outcome) ==
    IF inputData.text_result \in {NoneText, <<>>}
    THEN [raised |-> FALSE, error |-> None, value |-> NoneText, called |-> FALSE]
    ELSE IF outcome = NoneText
    THEN [raised |-> FALSE, error |-> None, value |-> NoneText, called |-> TRUE]
    ELSE [raised |-> FALSE, error |-> None, value |-> NormalizeResponse(outcome), called |-> TRUE]

\* f"{args.get('instance_id', 'general')}/{sourcefile}-output.json"
OutputBlob(instance_id, blob_name) == <<instance_id, "/", SourceFile(blob_name), "-output.json">>

\* writeToBlob raising after the upload succeeded (building its result).
WriteToBlob_RaisesAfterWrite(args, outcome) ==
    IF args.json_str = NoneText \/ Strip(args.json_str) = <<>>
    THEN [raised |-> FALSE, error |-> None, called |-> FALSE,
          value |-> [success |-> FALSE, error |-> "ValueError",
                     blob_name |-> NoneText, output_blob |-> <<>>]]
    ELSE IF outcome = ExtError
    THEN [raised |-> FALSE, error |-> None, called |-> TRUE,
          value |-> [success |-> FALSE, error |-> "write_to_blob raised",
                     blob_name |-> NoneText, output_blob |-> <<>>]]
    ELSE [raised |-> TRUE, error |-> "KeyError", called |-> TRUE, value |-> NoTaskResult]

\* writeToBlob reporting success whatever the upload did.
WriteToBlob_AlwaysSuccess(args, outcome) ==
    IF args.json_str = NoneText \/ Strip(args.json_str) = <<>>
    THEN [raised |-> FALSE, error |-> None, called |-> FALSE,
          value |-> [success |-> FALSE, error |-> "ValueError",
                     blob_name |-> NoneText, output_blob |-> <<>>]]
    ELSE [raised |-> FALSE, error |-> None, called |-> TRUE,
          value |-> [success |-> TRUE, error |-> None,
                     blob_name |-> args.blob_name,
                     output_blob |-> OutputBlob(args.instance_id, args.blob_name)]]

\* writeToBlob.extract_text_from_blob
WriteToBlob(args, outcome) ==
    IF args.json_str = NoneText \/ Strip(args.json_str) = <<>>
    THEN [raised |-> FALSE, error |-> None, called |-> FALSE,
          value |-> [success |-> FALSE, error |-> "ValueError",
                     blob_name |-> NoneText, output_blob |-> <<>>]]
    ELSE IF outcome = ExtError
    THEN [raised |-> FALSE, error |-> None, called |-> TRUE,
          value |-> [success |-> FALSE, error |-> "write_to_blob raised",
                     blob_name |-> NoneText, output_blob |-> <<>>]]
    ELSE [raised |-> FALSE, error |-> None, called |-> TRUE,
          value |-> [success |-> TRUE, error |-> None,
                     blob_name |-> args.blob_name,
                     output_blob |-> OutputBlob(args.instance_id, args.blob_name)]]

(***************************************************************************)
(* State.                                                                  *)
(***************************************************************************)
VARIABLES
    input_data,        \* context.get_input() of the orchestrator: the batch
    batchStatus,       \* runtime status of the orchestrator instance
    batchOutput,       \* its output (the list `results`) once Completed
    batchFailure,      \* <<error>> once it Failed, <<>> otherwise
    batchCompletions,  \* number of times the orchestrator instance was marked Completed
    child,             \* child[i]: the ProcessBlob sub-orchestration of input_data[i]
    finishOrder        \* indices of the children in the order they reached a terminal status

orchVars == <<input_data, batchStatus, batchOutput, batchFailure, batchCompletions, child, finishOrder>>

\* The HTTP surface of function_app.py and the functions exercised on their own.
VARIABLES
    API_KEY,           \* config.get_api_key(): the configured key, NoneText when unset
    rate_hits,         \* start_orchestrator_http._rate_hits
    now,               \* time.monotonic(), in seconds
    startLog,          \* the client.start_new calls made so far: <<[instance_id, input]>>
    response,          \* the HTTP response of the last step, NoResponse after any other step
    requests,          \* the number of HTTP requests received so far
    call,              \* the function call under examination, NoCall when there is none
    result,            \* <<its result>>, <<>> before it ran
    accepted           \* the times at which _enforce_rate_limit appended a hit, oldest first

ioVars == <<API_KEY, rate_hits, now, startLog, response, requests, call, result, accepted>>

vars == <<input_data, batchStatus, batchOutput, batchFailure, batchCompletions, child, finishOrder,
          API_KEY, rate_hits, now, startLog, response, requests, call, result, accepted>>

NoResponse == [code |-> 0]
NoCall == [fn |-> None]

\* No HTTP request has been handled and no function is under examination.
IdleIo ==
    /\ API_KEY = NoneText
    /\ rate_hits = <<>>
    /\ accepted = <<>>
    /\ now = 0
    /\ startLog = <<>>
    /\ response = NoResponse
    /\ requests = 0
    /\ call = NoCall
    /\ result = <<>>

BatchId == <<"B">>
ChildId(i) == <<"B", i>>

Children == 1..Len(input_data)

Terminal == {"Completed", "Failed"}

ZeroCount == [s \in Stages |-> 0]

NewChild ==
    [status      |-> "NotCreated",
     pc          |-> "start",           \* start / await / timer / end
     stage       |-> None,              \* the activity the yield is waiting for
     inflight    |-> {},                \* activities dispatched and not yet resolved
     dispatched  |-> <<>>,              \* every activity invocation, in order
     resolved    |-> {},                \* stages whose with-retry task has resolved
     attempts    |-> ZeroCount,         \* invocations of each activity
     extcalls    |-> ZeroCount,         \* invocations of each external operation
     effects     |-> ZeroCount,         \* external operations that took effect (succeeded)
     sent_id     |-> [s \in Stages |-> <<>>],  \* the instance_id handed to each activity
     ext         |-> [s \in Stages |-> NotCalled],  \* outcome of the external operation
     text_result |-> NoneText,
     json_str    |-> NoneText,
     task_result |-> NoTaskResult,
     output      |-> <<>>,              \* <<result_payload>> once Completed
     failure     |-> <<>>]              \* <<[stage, error]>> once Failed

Init ==
    /\ input_data \in Batches
    /\ batchStatus = "Pending"
    /\ batchOutput = <<>>
    /\ batchFailure = <<>>
    /\ batchCompletions = 0
    /\ child = [i \in 1..Len(input_data) |-> NewChild]
    /\ finishOrder = <<>>
    /\ IdleIo

(***************************************************************************)
(* process_blob, one step per orchestrator episode.                        *)
(***************************************************************************)
\* context.call_activity_with_retry(s, ...): the activity is invoked.
DispatchActivity(c, s) ==
    [c EXCEPT !.pc = "await", !.stage = s,
              !.inflight = @ \cup {s},
              !.dispatched = Append(@, s),
              !.attempts[s] = @ + 1]

\* The write keyed by the sub-orchestration's own id.
ActivityInput_OwnId(i, c, s) ==
    IF s = "runDocIntel" THEN input_data[i]
    ELSE IF s = "callAoai"
    THEN [text_result |-> c.text_result, instance_id |-> ChildId(i)]
    ELSE [json_str |-> c.json_str, blob_name |-> input_data[i].name,
          instance_id |-> ChildId(i)]

\* The input process_blob builds for activity s of child i.
ActivityInput(i, c, s) ==
    IF s = "runDocIntel" THEN input_data[i]
    ELSE IF s = "callAoai"
    THEN [text_result |-> c.text_result, instance_id |-> ChildId(i)]
    ELSE [json_str |-> c.json_str, blob_name |-> input_data[i].name,
          instance_id |-> BatchId]

RunActivity(s, in, outcome) ==
    IF s = "runDocIntel" THEN RunDocIntel(in, outcome)
    ELSE IF s = "callAoai" THEN CallAoai(in, outcome)
    ELSE WriteToBlob(in, outcome)

ResultPayload(i, c, task_result) ==
    [blob |-> input_data[i], text_result |-> c.text_result, task_result |-> task_result]

\* The orchestrator code that runs when the yield on stage s returns `value`.
ResumeWith(i, c, s, value) ==
    IF s = "runDocIntel"
    THEN DispatchActivity([c EXCEPT !.text_result = value], "callAoai")
    ELSE IF s = "callAoai"
    THEN DispatchActivity([c EXCEPT !.json_str = value], "writeToBlob")
    ELSE [c EXCEPT !.task_result = value,
                   !.output = <<ResultPayload(i, c, value)>>,
                   !.status = "Completed", !.pc = "end", !.stage = None]

\* The with-retry task of stage s resolved (with a value or its last error).
ResolveActivity(c, s) ==
    [c EXCEPT !.inflight = @ \ {s}, !.resolved = @ \cup {s}]

\* A failure that also terminates the siblings still running.
FailChild_CancelSiblings(ch, i, s, err) ==
    [k \in DOMAIN ch |->
        IF k = i
        THEN [ResolveActivity(ch[k], s) EXCEPT
                 !.status = "Failed", !.pc = "end", !.stage = None,
                 !.failure = <<[stage |-> s, error |-> err]>>]
        ELSE IF ch[k].status \in Terminal THEN ch[k]
        ELSE [ch[k] EXCEPT !.status = "Failed", !.pc = "end", !.stage = None,
                           !.inflight = {},
                           !.failure = <<[stage |-> s, error |-> "Cancelled"]>>]]

\* The with-retry task of stage s of child i failed for good: the exception
\* leaves process_blob, and only that sub-orchestration becomes Failed.
FailChild(ch, i, s, err) ==
    [ch EXCEPT ![i] = [ResolveActivity(@, s) EXCEPT
                          !.status = "Failed", !.pc = "end", !.stage = None,
                          !.failure = <<[stage |-> s, error |-> err]>>]]

\* One attempt too many.
CanRetry_OffByOne(c, s) == c.attempts[s] <= MaxAttempts(s)

\* RetryAbleTask: another attempt is allowed.
CanRetry(c, s) == c.attempts[s] < MaxAttempts(s)

\* The first two activities called without yielding in between.
ProcessBlobStart_NoYield(i) ==
    /\ child[i].status = "Pending"
    /\ child' = [child EXCEPT ![i] =
                    DispatchActivity(
                        DispatchActivity([@ EXCEPT !.status = "Running"], "runDocIntel"),
                        "callAoai")]
    /\ UNCHANGED ioVars
    /\ UNCHANGED <<input_data, batchStatus, batchOutput, batchFailure, batchCompletions, finishOrder>>

\* The sub-orchestration starts: telemetry, then the first activity call.
ProcessBlobStart(i) ==
    /\ child[i].status = "Pending"
    /\ child' = [child EXCEPT ![i] =
                    DispatchActivity([@ EXCEPT !.status = "Running"], "runDocIntel")]
    /\ UNCHANGED ioVars
    /\ UNCHANGED <<input_data, batchStatus, batchOutput, batchFailure, batchCompletions, finishOrder>>

\* The activity ran with result r: what its external call did is recorded.
RecordCall(c, s, in, r, outcome) ==
    LET got == [c EXCEPT !.sent_id[s] = IF s = "runDocIntel" THEN @ ELSE in.instance_id]
    IN  IF r.called
        THEN [got EXCEPT !.extcalls[s] = @ + 1,
                         !.effects[s] = IF outcome \in {ExtError, NoneText} THEN @ ELSE @ + 1,
                         !.ext[s] = outcome]
        ELSE got

\* The awaited activity runs and returns a value; process_blob continues
\* to its next yield or to its return.
ActivityReturns(i) ==
    /\ child[i].pc = "await"
    /\ \E outcome \in ExternalOutcomes(child[i].stage) :
         LET c == child[i]
             s == c.stage
             in == ActivityInput(i, c, s)
             r == RunActivity(s, in, outcome)
             ran == RecordCall(c, s, in, r, outcome)
         IN  /\ ~r.raised
             /\ child' = [child EXCEPT ![i] = ResumeWith(i, ResolveActivity(ran, s), s, r.value)]
             /\ finishOrder' = IF child'[i].status \in Terminal
                               THEN Append(finishOrder, i) ELSE finishOrder
    /\ UNCHANGED ioVars
    /\ UNCHANGED <<input_data, batchStatus, batchOutput, batchFailure, batchCompletions>>

\* The awaited activity raises: the framework schedules the retry timer, or,
\* with no attempt left, fails the task and with it the sub-orchestration.
ActivityRaises(i) ==
    /\ child[i].pc = "await"
    /\ \E outcome \in ExternalOutcomes(child[i].stage) :
         LET c == child[i]
             s == c.stage
             in == ActivityInput(i, c, s)
             r == RunActivity(s, in, outcome)
             ran == RecordCall(c, s, in, r, outcome)
         IN  /\ r.raised
             /\ IF CanRetry(c, s)
                THEN /\ child' = [child EXCEPT ![i] =
                                     [ran EXCEPT !.pc = "timer", !.inflight = @ \ {s}]]
                     /\ finishOrder' = finishOrder
                ELSE /\ child' = FailChild([child EXCEPT ![i] = ran], i, s, r.error)
                     /\ finishOrder' = Append(finishOrder, i)
    /\ UNCHANGED ioVars
    /\ UNCHANGED <<input_data, batchStatus, batchOutput, batchFailure, batchCompletions>>

\* The retry timer fires: the activity is invoked again.
RetryTimerFires(i) ==
    /\ child[i].pc = "timer"
    /\ child' = [child EXCEPT ![i] = DispatchActivity(@, @.stage)]
    /\ UNCHANGED ioVars
    /\ UNCHANGED <<input_data, batchStatus, batchOutput, batchFailure, batchCompletions, finishOrder>>

(***************************************************************************)
(* run, the orchestrator.                                                  *)
(***************************************************************************)
\* The orchestrator run again from the top although the instance is over.
RunOrchestrator_Rerun ==
    /\ batchStatus \in {"Pending", "Completed", "Failed"}
    /\ batchStatus' = "Running"
    /\ child' = [i \in Children |-> [child[i] EXCEPT !.status = "Pending"]]
    /\ UNCHANGED ioVars
    /\ UNCHANGED <<input_data, batchOutput, batchFailure, batchCompletions, finishOrder>>

\* The for loop: one call_sub_orchestrator per entry, then yield task_all.
RunOrchestrator ==
    /\ batchStatus = "Pending"
    /\ batchStatus' = "Running"
    /\ child' = [i \in Children |-> [child[i] EXCEPT !.status = "Pending"]]
    /\ UNCHANGED ioVars
    /\ UNCHANGED <<input_data, batchOutput, batchFailure, batchCompletions, finishOrder>>

\* A join that only counts the documents whose output was written.
TaskAllDone_SuccessOnly ==
    \A i \in Children :
        child[i].status = "Completed" /\ child[i].task_result.success

\* A join that needs at least one task to resolve.
TaskAllDone_NeedsOne == Children # {} /\ \A i \in Children : child[i].status = "Completed"

\* task_all is satisfied: every sub-orchestration has completed.
TaskAllDone == \A i \in Children : child[i].status = "Completed"

\* The results in the order the children finished.
TaskAllResults_ByCompletion == [k \in Children |-> child[finishOrder[k]].output[1]]

\* The value of task_all: the children's results in the order of sub_tasks.
TaskAllResults == [i \in Children |-> child[i].output[1]]

\* task_any in place of task_all: the first completed child ends the batch.
TaskAllCompletes_WhenAny ==
    /\ batchStatus = "Running"
    /\ \E i \in Children :
         /\ child[i].status = "Completed"
         /\ batchOutput' = <<child[i].output[1]>>
    /\ batchStatus' = "Completed"
    /\ batchCompletions' = batchCompletions + 1
    /\ UNCHANGED ioVars
    /\ UNCHANGED <<input_data, batchFailure, child, finishOrder>>

\* task_all returns; `run` returns results and the instance is Completed.
TaskAllCompletes ==
    /\ batchStatus = "Running"
    /\ TaskAllDone
    /\ batchStatus' = "Completed"
    /\ batchOutput' = TaskAllResults
    /\ batchCompletions' = batchCompletions + 1
    /\ UNCHANGED ioVars
    /\ UNCHANGED <<input_data, batchFailure, child, finishOrder>>

\* task_all raises as soon as one sub-orchestration has failed; `run` does
\* not catch it, so the orchestrator instance is Failed.
TaskAllFails ==
    /\ batchStatus = "Running"
    /\ \E i \in Children : child[i].status = "Failed"
    /\ LET first == CHOOSE k \in 1..Len(finishOrder) :
                       /\ child[finishOrder[k]].status = "Failed"
                       /\ \A j \in 1..(k - 1) : child[finishOrder[j]].status # "Failed"
       IN  batchFailure' = child[finishOrder[first]].failure
    /\ batchStatus' = "Failed"
    /\ UNCHANGED ioVars
    /\ UNCHANGED <<input_data, batchOutput, batchCompletions, child, finishOrder>>

Next ==
    \/ RunOrchestrator
    \/ \E i \in Children : ProcessBlobStart(i)
    \/ \E i \in Children : ActivityReturns(i)
    \/ \E i \in Children : ActivityRaises(i)
    \/ \E i \in Children : RetryTimerFires(i)
    \/ TaskAllCompletes
    \/ TaskAllFails

Spec == Init /\ [][Next]_vars

\* Every episode that is ready is eventually run: the framework keeps
\* scheduling ready orchestrations, activities and timers.
\* The batches of Init with one name for every document reference: the name
\* decides no step's enabledness.
InitLive ==
    /\ Init
    /\ \A i \in 1..Len(input_data) : input_data[i].isdict => input_data[i].name = <<"a", ".", "p">>

LiveSpec ==
    /\ InitLive
    /\ [][Next]_vars
    /\ WF_vars(RunOrchestrator)
    /\ \A i \in 1..MaxBatch :
         /\ WF_vars(i \in Children /\ ProcessBlobStart(i))
         /\ WF_vars(i \in Children /\ ActivityReturns(i))
         /\ WF_vars(i \in Children /\ ActivityRaises(i))
         /\ WF_vars(i \in Children /\ RetryTimerFires(i))
    /\ WF_vars(TaskAllCompletes)
    /\ WF_vars(TaskAllFails)

(***************************************************************************)
(* Functions exercised on their own: the call is drawn by the initial      *)
(* state, one step runs it.                                                *)
(***************************************************************************)
\* Longest response enumerated character by character.
MaxRespLen == 3

\* No orchestration exists.
IdleOrch ==
    /\ input_data = <<>>
    /\ batchStatus = "NotStarted"
    /\ batchOutput = <<>>
    /\ batchFailure = <<>>
    /\ batchCompletions = 0
    /\ child = <<>>
    /\ finishOrder = <<>>

\* JSON texts of the alphabet of JsonRoundTrip.
JsonTexts ==
    {<<"1">>, <<"1", "1">>, <<"[", "]">>, <<"[", " ", "]">>, <<"[", "1", "]">>,
     <<"[", " ", "1", "\n", "]">>, <<"[", "[", "1", "]", "]">>, <<"{", "}">>, <<"{", " ", "}">>}

Pads == {<<>>, <<" ">>, <<"\n">>}
Tags == {<<>>, JsonTag, <<"J", "S", "O", "N">>}
RawAlphabet == {Backtick, "j", " ", "1", "[", "]"}

\* Responses of the model: JSON inside a fence, bare JSON, and every short
\* string over RawAlphabet.
FencedJsonCalls ==
    {[fn |-> "callAoai", text_result |-> <<"t">>, shape |-> "fenced", tag |-> tag, json |-> j,
      response |-> w1 \o Fence \o tag \o w2 \o j \o w3 \o Fence \o w4] :
        w1 \in Pads, w2 \in Pads, w3 \in Pads, w4 \in Pads, tag \in Tags, j \in JsonTexts}
BareJsonCalls ==
    {[fn |-> "callAoai", text_result |-> <<"t">>, shape |-> "bare", tag |-> <<>>, json |-> j,
      response |-> w1 \o j \o w4] : w1 \in Pads, w4 \in Pads, j \in JsonTexts}
RawCalls ==
    {[fn |-> "callAoai", text_result |-> <<"t">>, shape |-> "raw", tag |-> <<>>, json |-> <<>>,
      response |-> r] : r \in SeqsUpTo(RawAlphabet, MaxRespLen)}

\* ---- list_orchestration_history ----
\* Bounds of the enumerated instance lists: latest creation time, longest list
\* enumerated element by element.
MaxTime == 2
MaxStatuses == 3

Key == <<"k">>
SuppliedKeys == {NoneText, Key, <<" ", "k", "\n">>, <<"x">>, <<>>}

\* A check that lets a request without any key through.
AuthenticateRequest_KeyOptional(api_key, supplied) ==
    \/ api_key = NoneText
    \/ supplied = NoneText
    \/ Strip(supplied) = api_key

\* _authenticate_request: TRUE when the request may proceed.
AuthenticateRequest(api_key, supplied) ==
    \/ api_key = NoneText
    \/ supplied # NoneText /\ Strip(supplied) = api_key

DigitVal ==
    ("0" :> 0) @@ ("1" :> 1) @@ ("2" :> 2) @@ ("3" :> 3) @@ ("4" :> 4) @@
    ("5" :> 5) @@ ("6" :> 6) @@ ("7" :> 7) @@ ("8" :> 8) @@ ("9" :> 9)

RECURSIVE DigitsValue(_)
DigitsValue(t) ==
    IF t = <<>> THEN 0
    ELSE DigitsValue(SubSeq(t, 1, Len(t) - 1)) * 10 + DigitVal[t[Len(t)]]

\* int(text): surrounding whitespace and one sign allowed, decimal digits only.
IntOf(text) ==
    LET s == Strip(text)
        signed == s # <<>> /\ s[1] \in {"+", "-"}
        body == IF signed THEN Tail(s) ELSE s
    IN  IF body = <<>> \/ \E k \in 1..Len(body) : body[k] \notin DOMAIN DigitVal
        THEN [ok |-> FALSE, value |-> 0]
        ELSE [ok |-> TRUE,
              value |-> IF signed /\ s[1] = "-" THEN 0 - DigitsValue(body) ELSE DigitsValue(body)]

DefaultLimit == 20
MinLimit == 1
MaxLimit == 100

Min(a, b) == IF a < b THEN a ELSE b
Max(a, b) == IF a > b THEN a ELSE b

\* The clamp without its lower end.
EffectiveLimit_NoFloor(limit_param) ==
    LET limit == IF limit_param = NoneText \/ limit_param = <<>>
                 THEN DefaultLimit ELSE IntOf(limit_param).value
    IN  Max(0, Min(limit, MaxLimit))

\* `limit = int(limit_param) if limit_param else 20; limit = max(1, min(limit, 100))`,
\* for a limit_param that int() accepts.
EffectiveLimit(limit_param) ==
    LET limit == IF limit_param = NoneText \/ limit_param = <<>>
                 THEN DefaultLimit ELSE IntOf(limit_param).value
    IN  Max(MinLimit, Min(limit, MaxLimit))

LimitRejected(limit_param) ==
    limit_param # NoneText /\ limit_param # <<>> /\ ~IntOf(limit_param).ok

\* created_time of an instance: seconds, or NoTime for None.
Times == 0..MaxTime
NoTime == 0 - 2
DatetimeMin == 0 - 1

\* `s.created_time or datetime.min`
SortKey(s) == IF s.created_time = NoTime THEN DatetimeMin ELSE s.created_time

RECURSIVE ConcatDownFrom(_, _, _)
ConcatDownFrom(statuses, t, low) ==
    IF t < low THEN <<>>
    ELSE SelectSeq(statuses, LAMBDA s : SortKey(s) = t) \o ConcatDownFrom(statuses, t - 1, low)

RECURSIVE ConcatUpFrom(_, _, _)
ConcatUpFrom(statuses, t, high) ==
    IF t > high THEN <<>>
    ELSE SelectSeq(statuses, LAMBDA s : SortKey(s) = t) \o ConcatUpFrom(statuses, t + 1, high)

\* Oldest first.
SortNewestFirst_Ascending(statuses) == ConcatUpFrom(statuses, DatetimeMin, MaxTime + 1)

\* `statuses.sort(key=..., reverse=True)`: the stable sort, greatest key first,
\* equal keys in their original order.
SortNewestFirst(statuses) == ConcatDownFrom(statuses, MaxTime + 1, DatetimeMin)

\* The `since` query parameter: absent, empty, not ISO-8601, an ISO-8601 time
\* without offset (naive) or with one (aware).
SinceParams ==
    {[kind |-> k, time |-> 0] : k \in {"absent", "empty", "invalid"}}
        \cup {[kind |-> k, time |-> t] : k \in {"naive", "aware"}, t \in 0..(MaxTime + 1)}

\* `s.created_time and s.created_time.replace(tzinfo=None) >= since_time`
MatchesSince(s, since) == s.created_time # NoTime /\ s.created_time >= since.time

\* statuses[:limit] for limit >= 0
Take(seq, n) == SubSeq(seq, 1, Min(n, Len(seq)))

HistoryResponse(code, items, raised) == [code |-> code, items |-> items, raised |-> raised]

\* list_orchestration_history, get_status_all returning `statuses` (or raising
\* when ~store_ok), the runtime's datetimes carrying a timezone iff `aware`.
ListOrchestrationHistory(api_key, req, statuses, store_ok, aware) ==
    LET filtering == req.since.kind \in {"naive", "aware"}
        matching == IF filtering
                    THEN SelectSeq(statuses, LAMBDA s : MatchesSince(s, req.since))
                    ELSE statuses
        mixedKeys == /\ aware
                     /\ \E k \in 1..Len(matching) : matching[k].created_time = NoTime
                     /\ \E k \in 1..Len(matching) : matching[k].created_time # NoTime
    IN  IF ~AuthenticateRequest(api_key, req.supplied_key) THEN HistoryResponse(401, <<>>, FALSE)
        ELSE IF LimitRejected(req.limit) THEN HistoryResponse(400, <<>>, FALSE)
        ELSE IF req.since.kind = "invalid" THEN HistoryResponse(400, <<>>, FALSE)
        ELSE IF ~store_ok THEN HistoryResponse(500, <<>>, FALSE)
        ELSE IF /\ req.since.kind = "aware"
                /\ \E k \in 1..Len(statuses) : statuses[k].created_time # NoTime
             THEN HistoryResponse(500, <<>>, TRUE)    \* naive compared with aware: TypeError
        ELSE IF mixedKeys THEN HistoryResponse(500, <<>>, TRUE)    \* TypeError inside sort
        ELSE HistoryResponse(200, Take(SortNewestFirst(matching), EffectiveLimit(req.limit)), FALSE)

\* Instance lists: every list of up to MaxStatuses instances, and long lists
\* around the default and the greatest limit.
StatusList(times) == [k \in 1..Len(times) |-> [instance_id |-> k, created_time |-> times[k]]]
LongTimes(n, step) == [k \in 1..n |-> (k * step) % (MaxTime + 1)]
ListLengths == {19, 20, 21, 99, 100, 101}

LimitParams ==
    {NoneText, <<>>, <<"0">>, <<"-", "1">>, <<"1">>, <<"2">>, <<" ", "3", "\n">>, <<"+", "2">>,
     <<"2", "0">>, <<"2", "1">>, <<"4", "0">>, <<"1", "0", "0">>, <<"1", "0", "1">>, <<"1", "0", "0", "0">>,
     <<"x">>, <<"1", ".", "5">>, <<"-">>}

HistoryRequest(key, limit, since) == [supplied_key |-> key, limit |-> limit, since |-> since]

HistoryCall(key, limit, since, times, store_ok, aware) ==
    [fn |-> "history", req |-> HistoryRequest(key, limit, since),
     statuses |-> StatusList(times), store_ok |-> store_ok, aware |-> aware]

ShortHistoryCalls ==
    {HistoryCall(NoneText, l, since, times, TRUE, aware) :
        l \in LimitParams, since \in SinceParams,
        times \in SeqsUpTo(Times \cup {NoTime}, MaxStatuses), aware \in BOOLEAN}
LongHistoryCalls ==
    {HistoryCall(NoneText, l, since, LongTimes(n, step), TRUE, aware) :
        l \in LimitParams, since \in {sp \in SinceParams : sp.kind \in {"absent", "naive"}},
        n \in ListLengths, step \in {1, 2}, aware \in BOOLEAN}
KeyedHistoryCalls ==
    {HistoryCall(key, l, [kind |-> "absent", time |-> 0], <<0, 1>>, ok, FALSE) :
        key \in SuppliedKeys, l \in {NoneText, <<"1">>, <<"x">>}, ok \in BOOLEAN}

InitPure ==
    /\ IdleOrch
    /\ rate_hits = <<>>
    /\ accepted = <<>>
    /\ now = 0
    /\ startLog = <<>>
    /\ response = NoResponse
    /\ requests = 0
    /\ result = <<>>
    /\ \/ API_KEY = NoneText /\ call \in FencedJsonCalls
       \/ API_KEY = NoneText /\ call \in BareJsonCalls
       \/ API_KEY = NoneText /\ call \in RawCalls
       \/ API_KEY = NoneText /\ call \in ShortHistoryCalls
       \/ API_KEY = NoneText /\ call \in LongHistoryCalls
       \/ API_KEY \in {NoneText, Key} /\ call \in KeyedHistoryCalls

\* The callAoai activity runs on call.text_result, run_prompt returning
\* call.response.
RunCallAoai ==
    /\ call.fn = "callAoai"
    /\ result = <<>>
    /\ result' = <<CallAoai([text_result |-> call.text_result, instance_id |-> ChildId(1)],
                            call.response)>>
    /\ UNCHANGED orchVars
    /\ UNCHANGED <<API_KEY, rate_hits, accepted, now, startLog, response, requests, call>>

\* One GET /history request is answered.
RunListHistory ==
    /\ call.fn = "history"
    /\ response = NoResponse
    /\ response' = ListOrchestrationHistory(API_KEY, call.req, call.statuses, call.store_ok, call.aware)
    /\ UNCHANGED orchVars
    /\ UNCHANGED <<API_KEY, rate_hits, accepted, now, startLog, requests, call, result>>

NextPure ==
    \/ RunCallAoai
    \/ RunListHistory

PureSpec == InitPure /\ [][NextPure]_vars

(***************************************************************************)
(* Ingress: start_orchestrator_http and start_orchestrator_blob.  The      *)
(* orchestration of the first instance started is followed step by step;   *)
(* later instances are recorded in startLog only.                          *)
(***************************************************************************)
\* Longest `blobs` list of a request, HTTP requests per behaviour.
MaxBlobs == 2
MaxRequests == 2

\* Seconds between one request and the next.
Elapsed == {0, 31}

StartRateLimit == 20
StartRateWindow == 60

RECURSIVE PopExpired_AtWindow(_, _, _)
\* A queue that also drops the hit made exactly one window ago.
PopExpired_AtWindow(hits, t, window) ==
    IF hits # <<>> /\ t - hits[1] >= window
    THEN PopExpired_AtWindow(Tail(hits), t, window) ELSE hits

RECURSIVE PopExpired(_, _, _)
\* `while hits and now - hits[0] > window_seconds: hits.popleft()`
PopExpired(hits, t, window) ==
    IF hits # <<>> /\ t - hits[1] > window THEN PopExpired(Tail(hits), t, window) ELSE hits

\* A limiter that records the rejected request as a hit.
EnforceRateLimit_CountsRejected(hits, limit, window, t) ==
    LET live == PopExpired(hits, t, window) IN
    IF Len(live) >= limit
    THEN [allowed |-> FALSE, hits |-> Append(live, t),
          retry_after |-> Max(0, window - (t - live[1]))]
    ELSE [allowed |-> TRUE, hits |-> Append(live, t), retry_after |-> 0]

\* _enforce_rate_limit at time t.
EnforceRateLimit(hits, limit, window, t) ==
    LET live == PopExpired(hits, t, window) IN
    IF Len(live) >= limit
    THEN [allowed |-> FALSE, hits |-> live, retry_after |-> Max(0, window - (t - live[1]))]
    ELSE [allowed |-> TRUE, hits |-> Append(live, t), retry_after |-> 0]

\* JSON values of an entry's field: absent, not a string, or a string.
Missing == <<"<missing>">>
NonString == <<"<number>">>
ValidName == <<"a", ".", "p">>
ValidUrl == <<"u">>
ValidContainer == <<"c">>
BadFields == {Missing, NonString, <<>>, <<" ">>, <<"\n", " ">>}

BlobEntry(name, url, container) ==
    [isdict |-> TRUE, name |-> name, url |-> url, container |-> container]
ValidEntry == BlobEntry(ValidName, ValidUrl, ValidContainer)
NotAnObject == [isdict |-> FALSE, name |-> Missing, url |-> Missing, container |-> Missing]
BadEntries ==
    {NotAnObject} \cup {BlobEntry(bad, ValidUrl, ValidContainer) : bad \in BadFields}
                  \cup {BlobEntry(ValidName, bad, ValidContainer) : bad \in BadFields}
                  \cup {BlobEntry(ValidName, ValidUrl, bad) : bad \in BadFields}

\* `k not in b or not isinstance(b[k], str) or not b[k].strip()` is false
FieldOk(v) == v # Missing /\ v # NonString /\ Strip(v) # <<>>
EntryOk(b) == b.isdict /\ FieldOk(b.name) /\ FieldOk(b.url) /\ FieldOk(b.container)

\* Request bodies: not JSON, JSON that is no object, an object without
\* `blobs`, with a `blobs` that is no list, or with a list.
Body(json, blobs_kind, blobs) == [json |-> json, blobs_kind |-> blobs_kind, blobs |-> blobs]
ListBody(blobs) == Body("object", "list", blobs)
ValidLists == {[k \in 1..n |-> ValidEntry] : n \in 1..MaxBlobs}
OneBadLists ==
    {[k \in 1..n |-> IF k = p THEN bad ELSE ValidEntry] :
        n \in 1..MaxBlobs, p \in 1..MaxBlobs, bad \in BadEntries}
Bodies ==
    {Body("invalid", "missing", <<>>), Body("nonobject", "missing", <<>>),
     Body("object", "missing", <<>>), Body("object", "notlist", <<>>), ListBody(<<>>)}
        \cup {ListBody(l) : l \in ValidLists}
        \cup {ListBody(l) : l \in {m \in OneBadLists : \E k \in 1..Len(m) : ~EntryOk(m[k])}}

StartRequest(key, body) == [supplied_key |-> key, body |-> body]
StartCalls(keys) == {[fn |-> "start", req |-> StartRequest(key, body)] : key \in keys, body \in Bodies}

StartResponse(code, instance_id, raised) ==
    [code |-> code, instanceId |-> instance_id, raised |-> raised]

\* start_orchestrator_http from `body = req.get_json()` to the last validation
\* return: the status it answers, 0 when every check passed.
ValidatePayload(body) ==
    IF body.json = "invalid" THEN [code |-> 400, raised |-> FALSE]
    ELSE IF body.json = "nonobject" THEN [code |-> 500, raised |-> TRUE]  \* body.get: AttributeError
    ELSE IF body.blobs_kind # "list" \/ body.blobs = <<>> THEN [code |-> 400, raised |-> FALSE]
    ELSE IF \E k \in 1..Len(body.blobs) : ~EntryOk(body.blobs[k]) THEN [code |-> 400, raised |-> FALSE]
    ELSE [code |-> 0, raised |-> FALSE]

\* The id client.start_new returns for the next instance.
NewInstanceId == IF startLog = <<>> THEN BatchId ELSE <<"L", Len(startLog) + 1>>

\* The orchestrator's view of a payload entry.
InputEntry(b) == [isdict |-> b.isdict, name |-> b.name]

\* Only the first reference is handed on.
ClientInput_FirstOnly(blobs) == <<blobs[1]>>

\* `client_input=blobs`
ClientInput(blobs) == blobs

\* client.start_new('orchestrator', client_input): one new instance, Pending.
StartNew(client_input, trigger) ==
    /\ startLog' = Append(startLog, [instance_id |-> NewInstanceId, input |-> client_input,
                                     trigger |-> trigger])
    /\ IF startLog = <<>>
       THEN /\ input_data' = [k \in 1..Len(client_input) |-> InputEntry(client_input[k])]
            /\ batchStatus' = "Pending"
            /\ batchOutput' = <<>>
            /\ batchFailure' = <<>>
            /\ batchCompletions' = 0
            /\ child' = [k \in 1..Len(client_input) |-> NewChild]
            /\ finishOrder' = <<>>
       ELSE UNCHANGED orchVars

\* A handler that validates the payload before it asks the rate limiter.
StartOrchestratorHttp_ValidateFirst ==
    /\ call.fn = "start"
    /\ requests < MaxRequests
    /\ requests' = requests + 1
    /\ \E dt \in Elapsed : now' = now + dt
    /\ LET req == call.req
           rate == EnforceRateLimit(rate_hits, StartRateLimit, StartRateWindow, now')
           checked == ValidatePayload(req.body)
       IN  IF ~AuthenticateRequest(API_KEY, req.supplied_key)
           THEN /\ response' = StartResponse(401, NoneText, FALSE)
                /\ UNCHANGED <<rate_hits, accepted, startLog>>
                /\ UNCHANGED orchVars
           ELSE IF checked.code # 0
           THEN /\ response' = StartResponse(checked.code, NoneText, checked.raised)
                /\ UNCHANGED <<rate_hits, accepted, startLog>>
                /\ UNCHANGED orchVars
           ELSE /\ rate_hits' = rate.hits
                /\ accepted' = IF rate.allowed THEN Append(accepted, now') ELSE accepted
                /\ IF ~rate.allowed
                   THEN /\ response' = StartResponse(429, NoneText, FALSE)
                        /\ UNCHANGED startLog
                        /\ UNCHANGED orchVars
                   ELSE /\ StartNew(ClientInput(req.body.blobs), "http")
                        /\ response' = StartResponse(202, NewInstanceId, FALSE)
    /\ UNCHANGED <<API_KEY, call, result>>

\* One POST /client request arrives and is handled.
StartOrchestratorHttp ==
    /\ call.fn = "start"
    /\ requests < MaxRequests
    /\ requests' = requests + 1
    /\ \E dt \in Elapsed : now' = now + dt
    /\ LET req == call.req
           rate == EnforceRateLimit(rate_hits, StartRateLimit, StartRateWindow, now')
           checked == ValidatePayload(req.body)
       IN  IF ~AuthenticateRequest(API_KEY, req.supplied_key)
           THEN /\ response' = StartResponse(401, NoneText, FALSE)
                /\ UNCHANGED <<rate_hits, accepted, startLog>>
                /\ UNCHANGED orchVars
           ELSE /\ rate_hits' = rate.hits
                /\ accepted' = IF rate.allowed THEN Append(accepted, now') ELSE accepted
                /\ IF ~rate.allowed
                   THEN /\ response' = StartResponse(429, NoneText, FALSE)
                        /\ UNCHANGED startLog
                        /\ UNCHANGED orchVars
                   ELSE IF checked.code # 0
                   THEN /\ response' = StartResponse(checked.code, NoneText, checked.raised)
                        /\ UNCHANGED startLog
                        /\ UNCHANGED orchVars
                   ELSE /\ StartNew(ClientInput(req.body.blobs), "http")
                        /\ response' = StartResponse(202, NewInstanceId, FALSE)
    /\ UNCHANGED <<API_KEY, call, result>>

\* A blob arrives in the bronze container.
BlobEvents == {[name |-> <<"d", "/", "a", ".", "p">>, uri |-> ValidUrl]}
Bronze == <<"bronze">>

StartOrchestratorBlob ==
    /\ \A k \in 1..Len(startLog) : startLog[k].trigger # "blob"
    /\ \E blob \in BlobEvents :
          StartNew(<<BlobEntry(blob.name, blob.uri, Bronze)>>, "blob")
    /\ UNCHANGED <<API_KEY, rate_hits, accepted, now, response, requests, call, result>>

\* The hit queue left by earlier requests: empty, one slot left, full.
PriorHits == {[k \in 1..n |-> 0] : n \in {0, StartRateLimit - 1, StartRateLimit}}

InitIngress ==
    /\ IdleOrch
    /\ now = 0
    /\ startLog = <<>>
    /\ response = NoResponse
    /\ requests = 0
    /\ result = <<>>
    /\ rate_hits \in PriorHits
    /\ accepted = rate_hits
    /\ \/ API_KEY = NoneText /\ call \in StartCalls({NoneText})
       \/ API_KEY = Key /\ call \in StartCalls({Key})
       \/ API_KEY = Key /\ call \in {c \in StartCalls(SuppliedKeys \ {Key}) :
                                        c.req.body \in {ListBody(<<>>), ListBody(<<ValidEntry>>)}}

\* No document started through the ingress is other than an object, so no
\* activity raises and no retry timer is armed.
NextIngress ==
    \/ StartOrchestratorHttp
    \/ StartOrchestratorBlob
    \/ RunOrchestrator
    \/ \E i \in Children : ProcessBlobStart(i)
    \/ \E i \in Children : ActivityReturns(i)
    \/ TaskAllCompletes

IngressSpec == InitIngress /\ [][NextIngress]_vars

(***************************************************************************)
(* Queries: get_orchestration_status and get_orchestration_results, asked  *)
(* while a batch runs.                                                     *)
(***************************************************************************)
\* The batches that are queried: empty, one or two entries, each a document
\* reference or not an object (the only kind of entry that makes an instance
\* fail).
QueryDocument == [isdict |-> TRUE, name |-> ValidName]
QueryBatches ==
    {<<>>, <<QueryDocument>>, <<NotADict>>, <<QueryDocument, QueryDocument>>,
     <<QueryDocument, NotADict>>, <<NotADict, QueryDocument>>, <<NotADict, NotADict>>}

\* The ids asked for: none, the batch, its documents, an id never issued.
UnknownId == <<"U">>
QueryIds ==
    {<<>>, BatchId, UnknownId} \cup UNION {{ChildId(i) : i \in 1..Len(b)} : b \in QueryBatches}

\* What the task hub holds about an instance: nothing, or its runtime status
\* and output.  The output is the returned value of a Completed instance, the
\* failure details of a Failed one, None (<<>>) before that.
InstanceExists(id) ==
    \/ id = BatchId /\ batchStatus # "NotStarted"
    \/ \E i \in Children : id = ChildId(i) /\ child[i].status # "NotCreated"

InstanceStatus(id) ==
    IF id = BatchId THEN batchStatus
    ELSE LET i == CHOOSE k \in Children : id = ChildId(k) IN child[i].status

\* DurableOrchestrationStatus.output: None, a returned value (the list `run`
\* returns or the one record process_blob returns) or failure details.
NoOutput == [isnone |-> TRUE, islist |-> FALSE, items |-> <<>>, error |-> <<>>]
ValueOutput(islist, items) == [isnone |-> FALSE, islist |-> islist, items |-> items, error |-> <<>>]
FailureOutput(failure) == [isnone |-> FALSE, islist |-> FALSE, items |-> <<>>, error |-> failure]

InstanceOutput(id) ==
    IF id = BatchId
    THEN IF batchStatus = "Completed" THEN ValueOutput(TRUE, batchOutput)
         ELSE IF batchStatus = "Failed" THEN FailureOutput(batchFailure)
         ELSE NoOutput
    ELSE LET i == CHOOSE k \in Children : id = ChildId(k) IN
         IF child[i].status = "Completed" THEN ValueOutput(FALSE, child[i].output)
         ELSE IF child[i].status = "Failed" THEN FailureOutput(child[i].failure)
         ELSE NoOutput

\* client.get_status(id).  What the client library does is not part of the
\* repository: the call raises ("raises"), or it answers, and for an id the
\* task hub does not know the answer is None ("none") or a status object with
\* every field None ("empty").
ClientOutcomes == {"raises", "none", "empty"}

GetStatus(id, client) ==
    IF InstanceExists(id)
    THEN [isnone |-> FALSE, runtime_status |-> InstanceStatus(id), output |-> InstanceOutput(id)]
    ELSE [isnone |-> (client = "none"), runtime_status |-> None, output |-> NoOutput]

\* The 401, 400 and 500 bodies do not name the instance; the 404 message and
\* the 200 data do.
QueryResponse(kind, id, code, runtimeStatus, output) ==
    [kind |-> kind, instanceId |-> id, code |-> code, runtimeStatus |-> runtimeStatus,
     output |-> output]

\* get_orchestration_status
StatusAnswer(key, id, client) ==
    LET status == GetStatus(id, client) IN
    IF ~AuthenticateRequest(API_KEY, key) THEN QueryResponse("status", NoneText, 401, None, NoOutput)
    ELSE IF id = <<>> THEN QueryResponse("status", NoneText, 400, None, NoOutput)
    ELSE IF client = "raises" THEN QueryResponse("status", NoneText, 500, None, NoOutput)
    ELSE IF status.isnone THEN QueryResponse("status", id, 404, None, NoOutput)
    ELSE QueryResponse("status", id, 200, status.runtime_status, status.output)

\* get_orchestration_results
ResultsAnswer(key, id, client) ==
    LET status == GetStatus(id, client) IN
    IF ~AuthenticateRequest(API_KEY, key) THEN QueryResponse("results", NoneText, 401, None, NoOutput)
    ELSE IF id = <<>> THEN QueryResponse("results", NoneText, 400, None, NoOutput)
    ELSE IF client = "raises" THEN QueryResponse("results", NoneText, 500, None, NoOutput)
    ELSE IF status.isnone THEN QueryResponse("results", id, 404, None, NoOutput)
    ELSE IF status.output.isnone THEN QueryResponse("results", id, 404, None, NoOutput)
    ELSE QueryResponse("results", id, 200, None, status.output)

\* The keys a query is sent with: none, or the configured one if there is one.
QueryKeys == IF API_KEY = NoneText THEN {NoneText} ELSE {NoneText, API_KEY}

\* One GET /status/{instanceId} request is answered.
GetOrchestrationStatus ==
    /\ \E key \in QueryKeys, id \in QueryIds, client \in ClientOutcomes :
          response' = StatusAnswer(key, id, client)
    /\ UNCHANGED orchVars
    /\ UNCHANGED <<API_KEY, rate_hits, accepted, now, startLog, requests, call, result>>

\* A read that purges the batch instance once its output was handed out.
GetOrchestrationResults_Purging ==
    /\ \E key \in QueryKeys, id \in QueryIds, client \in ClientOutcomes :
          /\ response' = ResultsAnswer(key, id, client)
          /\ batchStatus' = IF response'.code = 200 /\ id = BatchId THEN "NotStarted" ELSE batchStatus
    /\ UNCHANGED <<input_data, batchOutput, batchFailure, batchCompletions, child, finishOrder>>
    /\ UNCHANGED <<API_KEY, rate_hits, accepted, now, startLog, requests, call, result>>

\* One GET /results/{instanceId} request is answered.
GetOrchestrationResults ==
    /\ \E key \in QueryKeys, id \in QueryIds, client \in ClientOutcomes :
          response' = ResultsAnswer(key, id, client)
    /\ UNCHANGED orchVars
    /\ UNCHANGED <<API_KEY, rate_hits, accepted, now, startLog, requests, call, result>>

InitQuery ==
    /\ input_data \in QueryBatches
    /\ batchStatus = "Pending"
    /\ batchOutput = <<>>
    /\ batchFailure = <<>>
    /\ batchCompletions = 0
    /\ child = [i \in 1..Len(input_data) |-> NewChild]
    /\ finishOrder = <<>>
    /\ API_KEY \in {NoneText, Key}
    /\ rate_hits = <<>>
    /\ accepted = <<>>
    /\ now = 0
    /\ startLog = <<>>
    /\ response = NoResponse
    /\ requests = 0
    /\ call = NoCall
    /\ result = <<>>

NextQuery ==
    \/ GetOrchestrationStatus
    \/ GetOrchestrationResults
    \/ RunOrchestrator
    \/ \E i \in Children : ProcessBlobStart(i)
    \/ \E i \in Children : ActivityReturns(i)
    \/ \E i \in Children : ActivityRaises(i)
    \/ \E i \in Children : RetryTimerFires(i)
    \/ TaskAllCompletes
    \/ TaskAllFails

QuerySpec == InitQuery /\ [][NextQuery]_vars

(***************************************************************************)
(* Vocabulary of the properties.                                           *)
(***************************************************************************)
Range(q) == {q[k] : k \in 1..Len(q)}

AllDocumentReferences == \A k \in 1..Len(input_data) : input_data[k] \in DocumentReferences

\* The outcome of an external operation is a failure.
IsExtFailure(outcome) == outcome \in {ExtError, NoneText}

\* Stage s of child c has resolved and failed: its activity raised on every
\* attempt, or it returned its failure value (None, success = False).
StageFailed(c, s) ==
    /\ s \in c.resolved
    /\ \/ c.failure # <<>> /\ c.failure[1].stage = s
       \/ c.failure = <<>> /\
            IF s = "runDocIntel" THEN c.text_result = NoneText
            ELSE IF s = "callAoai" THEN c.json_str = NoneText
            ELSE c.status = "Completed" /\ ~c.task_result.success

SomeStageFailed(c) == \E s \in Stages : StageFailed(c, s)

AllStagesSucceeded(c) == c.resolved = Stages /\ ~SomeStageFailed(c)

StageRank(s) == IF s = "runDocIntel" THEN 1 ELSE IF s = "callAoai" THEN 2 ELSE 3

\* process_blob run on its own on `entry`, the external operations behaving
\* as recorded in `ext`: the activity invocations it makes and how it ends.
SoloRun(i, entry, ext) ==
    IF ~entry.isdict
    THEN [dispatched |-> [k \in 1..MaxAttempts("runDocIntel") |-> "runDocIntel"],
          status |-> "Failed", output |-> <<>>,
          failure |-> <<[stage |-> "runDocIntel", error |-> "TypeError"]>>,
          called |-> [s \in Stages |-> FALSE]]
    ELSE LET r1 == RunDocIntel(entry, ext["runDocIntel"])
             r2 == CallAoai([text_result |-> r1.value, instance_id |-> ChildId(i)],
                            ext["callAoai"])
             r3 == WriteToBlob([json_str |-> r2.value, blob_name |-> entry.name,
                                instance_id |-> BatchId], ext["writeToBlob"])
         IN  [dispatched |-> <<"runDocIntel", "callAoai", "writeToBlob">>,
              status |-> "Completed",
              output |-> <<[blob |-> entry, text_result |-> r1.value, task_result |-> r3.value]>>,
              failure |-> <<>>,
              called |-> [s \in Stages |->
                            IF s = "runDocIntel" THEN r1.called
                            ELSE IF s = "callAoai" THEN r2.called ELSE r3.called]]

IsPrefix(p, q) == Len(p) <= Len(q) /\ \A k \in 1..Len(p) : p[k] = q[k]

C2_BatchEventuallyCompleted ==
    AllDocumentReferences => <>(batchStatus = "Completed")

\* C2 witness: a non-empty batch is Completed although every one of its
\* documents failed a stage.
C2_Witness ==
    /\ AllDocumentReferences
    /\ Len(input_data) >= 1
    /\ batchStatus = "Completed"
    /\ \A i \in Children : SomeStageFailed(child[i])

\* C3: whatever its siblings do, a child invokes the activities it invokes
\* when run alone, and ends with the status and output of its run alone.
C3_SiblingsIndependent ==
    \A i \in Children :
        LET c == child[i]
            solo == SoloRun(i, input_data[i], c.ext)
        IN  /\ IsPrefix(c.dispatched, solo.dispatched)
            /\ c.status \in Terminal =>
                  /\ c.dispatched = solo.dispatched
                  /\ c.status = solo.status
                  /\ c.output = solo.output
                  /\ c.failure = solo.failure
                  /\ \A s \in Stages : (c.ext[s] # NotCalled) = solo.called[s]

\* C3 witness: a child failed first (a stage failed or the instance Failed),
\* and a sibling later completed with all three stages successful.
C3_Witness ==
    \E i, j \in Children :
        /\ i # j
        /\ finishOrder # <<>> /\ finishOrder[1] = i
        /\ SomeStageFailed(child[i])
        /\ child[j].status = "Completed"
        /\ AllStagesSucceeded(child[j])

\* C4: the output of a Completed batch has one entry per input entry, and
\* entry i is the output of the child of input entry i.
C4_ResultsInInputOrder ==
    batchStatus = "Completed" =>
        /\ Len(batchOutput) = Len(input_data)
        /\ \A i \in Children :
              /\ batchOutput[i] = child[i].output[1]
              /\ batchOutput[i].blob = input_data[i]

\* C4 witness: a Completed batch whose last child finished first and whose
\* entries differ.
C4_Witness ==
    /\ batchStatus = "Completed"
    /\ Len(input_data) >= 2
    /\ finishOrder[1] = Len(input_data)
    /\ batchOutput[1] # batchOutput[Len(input_data)]

\* C5: in a child the activities are dispatched in the order runDocIntel,
\* callAoai, writeToBlob, each only once the previous one has resolved, and
\* at most one activity is in flight.
C5_StrictStageOrder ==
    \A i \in Children :
        LET c == child[i]
        IN  /\ Cardinality(c.inflight) <= 1
            /\ "callAoai" \in Range(c.dispatched) => "runDocIntel" \in c.resolved
            /\ "writeToBlob" \in Range(c.dispatched) => "callAoai" \in c.resolved
            /\ \A k \in 1..(Len(c.dispatched) - 1) :
                  StageRank(c.dispatched[k]) <= StageRank(c.dispatched[k + 1])

\* C5 witness: writeToBlob is in flight, after the two earlier stages resolved.
C5_Witness ==
    \E i \in Children :
        /\ child[i].inflight = {"writeToBlob"}
        /\ child[i].resolved = {"runDocIntel", "callAoai"}

\* C6: once extraction has failed neither callAoai nor writeToBlob is run
\* for the document, and once transformation has failed writeToBlob is not.
C6_FailFast ==
    \A i \in Children :
        LET c == child[i]
        IN  /\ StageFailed(c, "runDocIntel") =>
                  Range(c.dispatched) \cap {"callAoai", "writeToBlob"} = {}
            /\ StageFailed(c, "callAoai") => "writeToBlob" \notin Range(c.dispatched)

\* C7: a child with a failed stage ends Failed with a failure record naming
\* that stage, and a child ends Completed only if all three stages succeeded.
C7_FailedStageFailsInstance ==
    \A i \in Children :
        LET c == child[i]
        IN  c.status \in Terminal =>
              /\ \A s \in Stages : StageFailed(c, s) =>
                    /\ c.status = "Failed"
                    /\ c.failure # <<>> /\ c.failure[1].stage = s
              /\ c.status = "Completed" => AllStagesSucceeded(c)

\* C8: a stage whose external operation failed resolves only after
\* maxAttempts invocations.
C8_RetryOnEveryFailure ==
    \A i \in Children : \A s \in Stages :
        LET c == child[i]
        IN  (s \in c.resolved /\ IsExtFailure(c.ext[s])) => c.attempts[s] = MaxAttempts(s)

\* C9: an activity is invoked at most maxAttempts times per document, its
\* external operation no more often, and never again once the stage resolved.
C9_AttemptsBounded ==
    /\ [](\A i \in Children : \A s \in Stages :
            /\ child[i].attempts[s] <= MaxAttempts(s)
            /\ child[i].extcalls[s] <= child[i].attempts[s])
    /\ [][\A i \in Children : \A s \in Stages :
            s \in child[i].resolved =>
               /\ child'[i].attempts[s] = child[i].attempts[s]
               /\ child'[i].extcalls[s] = child[i].extcalls[s]]_vars

\* C9 witness: one child used all attempts of runDocIntel and failed, and a
\* sibling completed with one successful invocation of each activity.
C9_Witness ==
    \E i, j \in Children :
        /\ child[i].status = "Failed"
        /\ child[i].attempts["runDocIntel"] = MaxAttempts("runDocIntel")
        /\ child[j].status = "Completed"
        /\ AllStagesSucceeded(child[j])
        /\ \A s \in Stages : child[j].attempts[s] = 1

\* C11: no external operation takes effect more than once per document
\* instance: at most one successful extraction, one successful model call and
\* one successful write, also in runs with retries.
C11_AtMostOnceEffects ==
    \A i \in Children : \A s \in Stages : child[i].effects[s] <= 1

\* C11 witness: a document Completed with each external operation having
\* taken effect once, while a sibling went through all its retries.
C11_Witness ==
    \E i, j \in Children :
        /\ child[i].status = "Completed"
        /\ \A s \in Stages : child[i].effects[s] = 1
        /\ child[j].attempts["runDocIntel"] = MaxAttempts("runDocIntel")
        /\ child[j].status = "Failed"

\* The status changes an instance may make in one step.
LegalStatusStep(old, new) ==
    \/ new = old
    \/ <<old, new>> \in {<<"NotCreated", "Pending">>, <<"Pending", "Running">>,
                         <<"Running", "Completed">>, <<"Running", "Failed">>}

\* C12: the batch instance and every document instance go Pending, Running,
\* then Completed or Failed, and a terminal instance keeps its status, its
\* output and its failure for ever.
C12_StatusLifecycle ==
    /\ [](/\ batchStatus = "Completed" => batchFailure = <<>>
          /\ batchStatus = "Failed" => batchFailure # <<>> /\ batchOutput = <<>>
          /\ \A i \in Children :
                /\ child[i].status = "Completed" =>
                      child[i].output # <<>> /\ child[i].failure = <<>>
                /\ child[i].status = "Failed" =>
                      child[i].failure # <<>> /\ child[i].output = <<>>)
    /\ [][/\ LegalStatusStep(batchStatus, batchStatus')
          /\ batchStatus \in Terminal =>
                /\ batchStatus' = batchStatus
                /\ batchOutput' = batchOutput
                /\ batchFailure' = batchFailure
          /\ \A i \in Children :
                /\ LegalStatusStep(child[i].status, child'[i].status)
                /\ child[i].status \in Terminal =>
                      /\ child'[i].status = child[i].status
                      /\ child'[i].output = child[i].output
                      /\ child'[i].failure = child[i].failure]_vars

\* C12 witness: a Failed batch with one Completed and one Failed document
\* instance, the Completed one having finished after the batch Failed.
C12_Witness ==
    /\ batchStatus = "Failed"
    /\ \E i, j \in Children :
          /\ child[i].status = "Failed"
          /\ child[j].status = "Completed"
          /\ finishOrder[Len(finishOrder)] = j

\* `base` is `name` without its directory part and without its extension:
\* name = dir \o base \o ext, dir empty or ending in the last "/", ext empty
\* or the last "." and what follows it; leading dots of the file name are
\* no extension.
IsDocumentBaseName(name, base) ==
    \E a \in 0..Len(name) : \E b \in a..Len(name) :
        /\ base = SubSeq(name, a + 1, b)
        /\ a = 0 \/ name[a] = "/"
        /\ \A k \in (a + 1)..Len(name) : name[k] # "/"
        /\ b = Len(name) \/ name[b + 1] = "."
        /\ \A k \in (b + 2)..Len(name) : name[k] # "."
        /\ b = Len(name) =>
              \A k \in (a + 1)..Len(name) :
                  name[k] = "." => \A j \in (a + 1)..(k - 1) : name[j] = "."
        /\ b < Len(name) => \E j \in (a + 1)..b : name[j] # "."

\* C19: a written output has the key <batch instance id>/<base>-output.json,
\* base being the document name without directory and extension; writeToBlob
\* is handed the batch instance id, callAoai the document instance's own id.
C19_DestinationKey ==
    \A i \in Children :
        LET c == child[i]
        IN  /\ c.task_result.success =>
                  /\ Len(c.task_result.output_blob) = 4
                  /\ c.task_result.output_blob[1] = BatchId
                  /\ c.task_result.output_blob[2] = "/"
                  /\ IsDocumentBaseName(input_data[i].name, c.task_result.output_blob[3])
                  /\ c.task_result.output_blob[4] = "-output.json"
            /\ "callAoai" \in c.resolved => c.sent_id["callAoai"] = ChildId(i)
            /\ "writeToBlob" \in c.resolved =>
                  c.sent_id["writeToBlob"] = BatchId /\ c.sent_id["writeToBlob"] # ChildId(i)

\* C19 witness: the output of a document whose name has a directory part and
\* an extension was written.
C19_Witness ==
    \E i \in Children :
        /\ child[i].task_result.success
        /\ RFind(input_data[i].name, "/") > 0
        /\ RFind(input_data[i].name, ".") > RFind(input_data[i].name, "/") + 1

\* C20: a response that is a JSON text inside a fence (with or without the
\* json tag), or a bare JSON text, is normalized to that JSON value, with no
\* fence marker or tag left.
C20_FencedJsonNormalized ==
    (call.fn = "callAoai" /\ result # <<>> /\ call.shape \in {"fenced", "bare"}) =>
        /\ ~result[1].raised
        /\ result[1].value = JsonRoundTrip(call.json)
        /\ Backtick \notin Range(result[1].value)
        /\ ~StartsWith(Lower(result[1].value), JsonTag)

\* C20 witness: a fenced response with the json tag and newlines around a
\* JSON array was normalized to the array.
C20_Witness ==
    /\ call.fn = "callAoai" /\ call.shape = "fenced" /\ call.tag = JsonTag
    /\ call.json = <<"[", " ", "1", "\n", "]">>
    /\ StartsWith(call.response, Fence \o JsonTag \o <<"\n">>)
    /\ result # <<>>
    /\ result[1].value = <<"[", "1", "]">>

\* The instances of the request's list that pass its `since` filter, as a set
\* of instance ids.
MatchingIds ==
    {k \in 1..Len(call.statuses) :
        call.req.since.kind \in {"naive", "aware"} =>
            /\ call.statuses[k].created_time # NoTime
            /\ call.statuses[k].created_time >= call.req.since.time}

ReturnedIds == {response.items[k].instance_id : k \in 1..Len(response.items)}

HistoryAnswered == call.fn = "history" /\ response.code = 200

\* createdTime for ordering: an instance without createdTime counts as older
\* than every other.
CreatedOrMin(s) == IF s.created_time = NoTime THEN DatetimeMin ELSE s.created_time

\* C17: the list-recent answer is in non-increasing createdTime order, holds
\* only instances created at or after `since` when one is given, and every
\* matching instance it leaves out is no newer than every instance it returns.
C17_NewestFirstSinceFiltered ==
    HistoryAnswered =>
        LET items == response.items IN
        /\ \A k \in 1..Len(items) :
              /\ items[k].instance_id \in 1..Len(call.statuses)
              /\ items[k] = call.statuses[items[k].instance_id]
        /\ \A j, k \in 1..Len(items) : j < k =>
              /\ items[j].instance_id # items[k].instance_id
              /\ CreatedOrMin(items[j]) >= CreatedOrMin(items[k])
        /\ call.req.since.kind \in {"naive", "aware"} =>
              \A k \in 1..Len(items) :
                  items[k].created_time # NoTime /\ items[k].created_time >= call.req.since.time
        /\ ReturnedIds \subseteq MatchingIds
        /\ \A out \in MatchingIds \ ReturnedIds : \A k \in 1..Len(items) :
              CreatedOrMin(call.statuses[out]) <= CreatedOrMin(items[k])

\* C17 witness: with `since` given, an older instance was filtered out, the
\* answer was truncated, and two instances of different age were returned.
C17_Witness ==
    /\ HistoryAnswered
    /\ call.req.since.kind = "naive"
    /\ \E k \in 1..Len(call.statuses) : k \notin MatchingIds
    /\ MatchingIds \ ReturnedIds # {}
    /\ Len(response.items) >= 2
    /\ response.items[1].created_time > response.items[Len(response.items)].created_time
    /\ \E j, k \in 1..Len(response.items) :
          j < k /\ response.items[j].instance_id > response.items[k].instance_id

\* The limit of the claim: 20 when none is supplied, else the supplied
\* integer clamped into 1..100.
ClaimedLimit ==
    LET supplied == call.req.limit IN
    IF supplied = NoneText \/ supplied = <<>> THEN 20
    ELSE LET n == IntOf(supplied).value IN
         IF n < 1 THEN 1 ELSE IF n > 100 THEN 100 ELSE n

FieldMalformed(v) == v = Missing \/ v = NonString \/ \A k \in 1..Len(v) : v[k] \in Whitespace
EntryMalformed(b) ==
    ~b.isdict \/ FieldMalformed(b.name) \/ FieldMalformed(b.url) \/ FieldMalformed(b.container)
Malformed(body) ==
    \/ body.json # "object"
    \/ body.blobs_kind # "list"
    \/ body.blobs = <<>>
    \/ \E k \in 1..Len(body.blobs) : EntryMalformed(body.blobs[k])

\* The request being handled passes authentication and the rate limiter.
Admitted ==
    /\ AuthenticateRequest(API_KEY, call.req.supplied_key)
    /\ EnforceRateLimit(rate_hits, StartRateLimit, StartRateWindow, now').allowed

HttpStartHandled == call.fn = "start" /\ requests' = requests + 1

\* C13: a malformed start request is rejected with a validation error (status
\* 400 once it has passed authentication and the rate limiter) and creates no
\* instance, wherever in the list the malformed entry stands.
C13_MalformedRejected ==
    [][(HttpStartHandled /\ Malformed(call.req.body)) =>
          /\ startLog' = startLog
          /\ UNCHANGED orchVars
          /\ response'.code # 202
          /\ Admitted => (response'.code = 400 /\ ~response'.raised)]_vars

\* C14: every start adds exactly one instance to those started, over exactly
\* the submitted references in their order (one reference for a blob event);
\* an admitted well-formed request always starts one and is answered 202 with
\* that instance's id while the instance is still Pending, no child created.
C14_StartsOneInstanceAndReturns ==
    [][/\ (HttpStartHandled /\ ~Malformed(call.req.body) /\ Admitted) =>
              Len(startLog') = Len(startLog) + 1
       /\ startLog' # startLog =>
              LET started == startLog'[Len(startLog')] IN
              /\ Len(startLog') = Len(startLog) + 1
              /\ SubSeq(startLog', 1, Len(startLog)) = startLog
              /\ \A k \in 1..Len(startLog) : startLog[k].instance_id # started.instance_id
              /\ IF started.trigger = "http"
                 THEN /\ HttpStartHandled
                      /\ started.input = call.req.body.blobs
                      /\ response' = StartResponse(202, started.instance_id, FALSE)
                 ELSE /\ Len(started.input) = 1
                      /\ started.input[1].container = Bronze
                      /\ response' = response
              /\ startLog = <<>> =>
                    /\ batchStatus' = "Pending"
                    /\ input_data' = [k \in 1..Len(started.input) |-> InputEntry(started.input[k])]
                    /\ \A k \in 1..Len(child') : child'[k].status = "NotCreated"]_vars

\* C14 witness: the 202 answer to a two-document request is held while the
\* batch it started is Running and one of its documents has not finished.
C14_Witness ==
    /\ startLog # <<>>
    /\ startLog[1].trigger = "http"
    /\ Len(startLog[1].input) = 2
    /\ response = StartResponse(202, BatchId, FALSE)
    /\ batchStatus = "Running"
    /\ \E i \in Children : child[i].status = "Completed"
    /\ \E i \in Children : child[i].status \notin Terminal

\* A one-document batch started by a blob event has completed.
C14_BlobWitness ==
    /\ startLog # <<>>
    /\ startLog[1].trigger = "blob"
    /\ Len(input_data) = 1
    /\ batchStatus = "Completed"

\* An answered query: the step that set the response.
QueryAnswered(kind) ==
    /\ response' # response
    /\ response'.kind = kind
    /\ response'.code \in {200, 404}

\* C15: the results query hands out an instance's output only when the
\* instance is Completed; for an unknown id and for a Pending, Running or
\* Failed instance it answers not found.
C15_ResultsOnlyWhenCompleted ==
    [][QueryAnswered("results") =>
          LET id == response'.instanceId IN
          IF InstanceExists(id) /\ InstanceStatus(id) = "Completed"
          THEN response'.code = 200 /\ response'.output = InstanceOutput(id)
          ELSE response'.code = 404]_vars

\* The instances in a terminal state.
TerminalIds == {id \in QueryIds : InstanceExists(id) /\ InstanceStatus(id) \in Terminal}

\* C16: once an instance is terminal, the answer of every status query and of
\* every results query about it stays the same through every later step,
\* whatever else happens, and answering a query changes no instance.  (The
\* answers are read from the instances and the configured key alone, so only
\* the steps that change one of them are compared.)
C16_TerminalAnswersStable ==
    [][/\ UNCHANGED <<orchVars, API_KEY>> \/ \A id \in TerminalIds :
            \A key \in QueryKeys, client \in ClientOutcomes :
                /\ StatusAnswer(key, id, client)' = StatusAnswer(key, id, client)
                /\ ResultsAnswer(key, id, client)' = ResultsAnswer(key, id, client)
       /\ response' # response =>
            /\ UNCHANGED orchVars
            /\ UNCHANGED <<API_KEY, rate_hits, accepted, startLog>>
            /\ response'.code = 200 =>
                  InstanceExists(response'.instanceId) \/ response'.output = NoOutput
            /\ (response'.code = 200 /\ InstanceExists(response'.instanceId)) =>
                  /\ response'.output = InstanceOutput(response'.instanceId)
                  /\ response'.kind = "status" =>
                        response'.runtimeStatus = InstanceStatus(response'.instanceId)]_vars

\* C16 witness: a document that failed was asked for its status, and the
\* answer still stands after its sibling completed and the batch failed.
C16_Witness ==
    /\ response.code = 200 /\ response.kind = "status"
    /\ response.instanceId \in TerminalIds
    /\ response.runtimeStatus = "Failed"
    /\ response.instanceId # BatchId
    /\ batchStatus = "Failed"
    /\ \E i \in Children : child[i].status = "Completed"

\* A results query about a Completed batch was answered with its output.
C15_CompletedWitness ==
    /\ response.code = 200 /\ response.kind = "results"
    /\ response.instanceId = BatchId
    /\ batchStatus = "Completed"
    /\ response.output = ValueOutput(TRUE, batchOutput)

\* The text between the fence markers of a fenced response, its tag dropped.
FenceContent(resp) ==
    LET inner == StripChars(Strip(resp), {Backtick})
    IN  IF StartsWith(Lower(inner), JsonTag) THEN SubSeq(inner, 5, Len(inner)) ELSE inner

\* A response that is not valid JSON, nor a fence around valid JSON.
NotJsonResponse(resp) ==
    /\ JsonRoundTrip(resp) = NotJson
    /\ StartsWith(Strip(resp), Fence) => JsonRoundTrip(FenceContent(resp)) = NotJson

\* C21: a response that is not valid JSON does not fail the transformation
\* stage and comes out as the response text itself, character for character.
C21_NonJsonUnchanged ==
    (call.fn = "callAoai" /\ result # <<>> /\ NotJsonResponse(call.response)) =>
        /\ ~result[1].raised
        /\ result[1].value = call.response

\* A non-JSON response without surrounding whitespace or fence came out
\* unchanged.
C21_PlainWitness ==
    /\ call.fn = "callAoai" /\ result # <<>>
    /\ call.response = <<"j", " ", "1">>
    /\ result[1].value = call.response

\* C22: the orchestrator started on an empty batch creates no
\* sub-orchestration, never waits (its join is satisfied from the start),
\* never fails, and reaches Completed with the empty list as its output.
C22_EmptyBatchCompletes ==
    input_data = <<>> =>
        /\ [](/\ child = <<>>
              /\ finishOrder = <<>>
              /\ TaskAllDone
              /\ batchStatus # "Failed"
              /\ batchStatus = "Completed" => batchOutput = <<>>)
        /\ <>(batchStatus = "Completed")

\* C22 witness: an empty batch is Completed with an empty result.
C22_Witness ==
    /\ input_data = <<>>
    /\ child = <<>>
    /\ batchStatus = "Completed"
    /\ batchCompletions = 1
    /\ batchOutput = <<>>

\* C24: the first retry interval differs between any two of the three
\* stages' retry policies.
C24_DistinctBackoffBases ==
    \A s1, s2 \in Stages :
        (s1 # s2 /\ Children # {}) =>
            RetryPolicy(s1).first_retry_interval_in_milliseconds
                # RetryPolicy(s2).first_retry_interval_in_milliseconds

\* C25: for every document, when extraction yielded no text run_prompt is
\* never called and callAoai returns None; when transformation yielded no
\* non-blank string write_to_blob is never called and writeToBlob returns a
\* record with success false.
C25_SideEffectSkipping ==
    \A i \in Children :
        LET c == child[i]
        IN  /\ ("runDocIntel" \in c.resolved /\ c.text_result \in {NoneText, <<>>}) =>
                  /\ c.extcalls["callAoai"] = 0
                  /\ c.ext["callAoai"] = NotCalled
                  /\ "callAoai" \in c.resolved => c.json_str = NoneText
            /\ ("callAoai" \in c.resolved
                   /\ (c.json_str = NoneText \/ Strip(c.json_str) = <<>>)) =>
                  /\ c.extcalls["writeToBlob"] = 0
                  /\ c.ext["writeToBlob"] = NotCalled
                  /\ "writeToBlob" \in c.resolved => ~c.task_result.success

\* C25 witness: extraction returned the empty string, both later activities
\* ran and returned, and neither external operation was invoked.
C25_Witness ==
    \E i \in Children :
        /\ child[i].ext["runDocIntel"] = <<>>
        /\ child[i].text_result = <<>>
        /\ child[i].resolved = Stages
        /\ child[i].attempts["callAoai"] = 1
        /\ child[i].attempts["writeToBlob"] = 1
        /\ child[i].extcalls["callAoai"] = 0
        /\ child[i].extcalls["writeToBlob"] = 0
        /\ ~child[i].task_result.success

\* A blank model response: the write is skipped although the model was called.
C25_BlankResponseWitness ==
    \E i \in Children :
        /\ child[i].ext["callAoai"] = <<" ">>
        /\ child[i].json_str = <<>>
        /\ child[i].resolved = Stages
        /\ child[i].extcalls["callAoai"] = 1
        /\ child[i].extcalls["writeToBlob"] = 0

\* C26: two distinct document references of one batch are never written
\* under the same output blob name.
C26_DistinctOutputKeys ==
    \A i, j \in Children :
        (/\ input_data[i] # input_data[j]
         /\ child[i].task_result.success
         /\ child[j].task_result.success) =>
            child[i].task_result.output_blob # child[j].task_result.output_blob

C27_SuccessWitness ==
    \E i \in Children :
        /\ "writeToBlob" \in child[i].resolved
        /\ child[i].ext["writeToBlob"] = <<"True">>
        /\ child[i].task_result.success
        /\ child[i].task_result.output_blob = OutputBlob(BatchId, input_data[i].name)

(***************************************************************************)
(* The rate limiter on its own: _enforce_rate_limit called for one of the  *)
(* two rate-limited endpoints, request after request.  The body of the     *)
(* function holds the endpoint's lock and never awaits, so one call is one *)
(* step; requests arriving together are steps with no time between them.   *)
(***************************************************************************)
MaxRateRequests == 3

ChatRateLimit == 60
ChatRateWindow == 60

\* Seconds of time.monotonic() between two calls.
RateElapsed == {0, 1, 59, 60, 61}

\* The _rate_limit and _rate_window_seconds attributes of the two handlers.
RateLimited ==
    {[endpoint |-> "start_orchestrator_http", limit |-> StartRateLimit, window |-> StartRateWindow],
     [endpoint |-> "direct_chat", limit |-> ChatRateLimit, window |-> ChatRateWindow]}

RateCalls ==
    {[fn |-> "_enforce_rate_limit", endpoint |-> e.endpoint, limit |-> e.limit, window |-> e.window] :
        e \in RateLimited}

\* Hit queues left by earlier admitted requests: empty, one slot left or
\* full; the first hit at time 0 and the others at time 0 or 1.
RateQueues(limit) ==
    {[k \in 1..n |-> IF k = 1 THEN 0 ELSE later] :
        n \in {0, limit - 1, limit}, later \in {0, 1}}

InitRate ==
    /\ IdleOrch
    /\ API_KEY = NoneText
    /\ startLog = <<>>
    /\ response = NoResponse
    /\ requests = 0
    /\ result = <<>>
    /\ call \in RateCalls
    /\ rate_hits \in RateQueues(call.limit)
    /\ accepted = rate_hits
    /\ now = 1

\* One request reaches `await _enforce_rate_limit(...)` of its handler.
EnforceRateLimitCall ==
    /\ call.fn = "_enforce_rate_limit"
    /\ requests < MaxRateRequests
    /\ requests' = requests + 1
    /\ \E dt \in RateElapsed : now' = now + dt
    /\ LET rate == EnforceRateLimit(rate_hits, call.limit, call.window, now')
       IN  /\ rate_hits' = rate.hits
           /\ accepted' = IF rate.allowed THEN Append(accepted, now') ELSE accepted
           /\ result' = <<[allowed |-> rate.allowed, retry_after |-> rate.retry_after,
                           at |-> now']>>
    /\ UNCHANGED orchVars
    /\ UNCHANGED <<API_KEY, startLog, response, call>>

NextRate == EnforceRateLimitCall

RateSpec == InitRate /\ [][NextRate]_vars

\* The number of admitted requests whose time lies in [from, from + window].
AcceptedWithin(from, window) ==
    Cardinality({k \in DOMAIN accepted : from <= accepted[k] /\ accepted[k] <= from + window})

\* C28: for either endpoint, at most `limit` requests are admitted in any
\* closed interval of `window` seconds, and the hit queue never holds more
\* than `limit` entries.
C28_RateLimitSafety ==
    call.fn = "_enforce_rate_limit" =>
        /\ Len(rate_hits) <= call.limit
        /\ \A from \in 0..now : AcceptedWithin(from, call.window) <= call.limit

\* C28 witness: more requests than the limit were admitted in all, the last
\* one after the window of the first ones had passed, and the queue is full
\* again or was emptied of them.
C28_Witness ==
    /\ call.fn = "_enforce_rate_limit"
    /\ Len(accepted) > call.limit
    /\ result # <<>> /\ result[1].allowed
    /\ \E k \in DOMAIN accepted : result[1].at - accepted[k] > call.window
    /\ \E from \in 0..now : AcceptedWithin(from, call.window) = call.limit

\* The limiter handles a request in this step.
RateStep == call.fn = "_enforce_rate_limit" /\ requests' = requests + 1

\* C29: a rejected request records no hit: the queue only loses, from its
\* front, entries older than the window, no later request is admitted at a
\* different time because of it, and its retry-after lies in 0..window.
C29_RejectionRecordsNoHit ==
    [][(RateStep /\ ~result'[1].allowed) =>
          /\ accepted' = accepted
          /\ \E d \in 0..Len(rate_hits) :
                /\ rate_hits' = SubSeq(rate_hits, d + 1, Len(rate_hits))
                /\ \A k \in 1..d : now' - rate_hits[k] > call.window
          /\ \A t \in now'..(now' + call.window + 1) :
                EnforceRateLimit(rate_hits', call.limit, call.window, t).allowed
                    = EnforceRateLimit(rate_hits, call.limit, call.window, t).allowed
          /\ result'[1].retry_after \in 0..call.window]_vars

\* C29 witness: a request was rejected on a full queue with a retry-after
\* strictly inside the window.
C29_Witness ==
    /\ call.fn = "_enforce_rate_limit"
    /\ result # <<>> /\ ~result[1].allowed
    /\ Len(rate_hits) = call.limit
    /\ result[1].retry_after \in 1..(call.window - 1)
    /\ result[1].retry_after = call.window - (now - rate_hits[1])

\* C30: after a request rejected at time t with retry-after r, the next
\* request, arriving at time t + r with none admitted in between, is admitted.
C30_RetryAfterHonoured ==
    [][(/\ RateStep
        /\ result # <<>>
        /\ ~result[1].allowed
        /\ now' = result[1].at + result[1].retry_after) => result'[1].allowed]_vars

(***************************************************************************)
(* Authentication: each HTTP handler called with every kind of key, under  *)
(* every kind of configured key.  For a call of start_orchestrator_http or *)
(* direct_chat, rate_hits is the hit queue of that handler.                *)
(***************************************************************************)
\* config.get_api_key(): unset, set to the empty string, set to a key.
ConfiguredKeys == {NoneText, <<>>, Key}

AuthStartCalls ==
    {c \in StartCalls(SuppliedKeys) : c.req.body \in {ListBody(<<>>), ListBody(<<ValidEntry>>)}}

StatusCalls ==
    {[fn |-> fn, req |-> [supplied_key |-> key, instanceId |-> id], client |-> client] :
        fn \in {"status", "results"}, key \in SuppliedKeys,
        id \in {<<>>, BatchId, UnknownId}, client \in ClientOutcomes}

\* A chat request: its body is not JSON, JSON but not an object, an object
\* without a usable query, or an object with one; run_prompt answers or not.
ChatBodies == {"invalid", "nonobject", "noquery", "query"}
ChatCalls ==
    {[fn |-> "chat", req |-> [supplied_key |-> key, body |-> body], response |-> r] :
        key \in SuppliedKeys, body \in ChatBodies, r \in {NoneText, <<"t">>}}

ChatResponse(code, text, raised) == [code |-> code, response |-> text, raised |-> raised]

\* direct_chat after the rate limiter let the request through.
ChatAnswer(body, prompt_result) ==
    IF body = "invalid" THEN ChatResponse(400, NoneText, FALSE)
    ELSE IF body = "nonobject" THEN ChatResponse(500, NoneText, TRUE)
    ELSE IF body = "noquery" THEN ChatResponse(400, NoneText, FALSE)
    ELSE IF prompt_result = NoneText THEN ChatResponse(502, NoneText, FALSE)
    ELSE ChatResponse(200, prompt_result, FALSE)

\* One POST /chat request arrives and is handled.
DirectChat ==
    /\ call.fn = "chat"
    /\ requests < MaxRequests
    /\ requests' = requests + 1
    /\ \E dt \in Elapsed : now' = now + dt
    /\ LET rate == EnforceRateLimit(rate_hits, ChatRateLimit, ChatRateWindow, now')
       IN  IF ~AuthenticateRequest(API_KEY, call.req.supplied_key)
           THEN /\ response' = ChatResponse(401, NoneText, FALSE)
                /\ UNCHANGED <<rate_hits, accepted>>
           ELSE /\ rate_hits' = rate.hits
                /\ accepted' = IF rate.allowed THEN Append(accepted, now') ELSE accepted
                /\ response' = IF rate.allowed
                               THEN ChatAnswer(call.req.body, call.response)
                               ELSE ChatResponse(429, NoneText, FALSE)
    /\ UNCHANGED orchVars
    /\ UNCHANGED <<API_KEY, startLog, call, result>>

\* One GET /status/{instanceId} or /results/{instanceId} request, the one
\* held in `call`, is answered.
StatusRequest ==
    /\ call.fn \in {"status", "results"}
    /\ requests < MaxRequests
    /\ requests' = requests + 1
    /\ response' = IF call.fn = "status"
                   THEN StatusAnswer(call.req.supplied_key, call.req.instanceId, call.client)
                   ELSE ResultsAnswer(call.req.supplied_key, call.req.instanceId, call.client)
    /\ UNCHANGED orchVars
    /\ UNCHANGED <<API_KEY, rate_hits, accepted, now, startLog, call, result>>

\* The chat queue left by earlier requests: empty or full.
ChatPriorHits == {[k \in 1..n |-> 0] : n \in {0, ChatRateLimit}}

InitAuth ==
    /\ API_KEY \in ConfiguredKeys
    /\ now = 0
    /\ startLog = <<>>
    /\ response = NoResponse
    /\ requests = 0
    /\ result = <<>>
    /\ \/ IdleOrch /\ call \in AuthStartCalls /\ rate_hits \in PriorHits
       \/ IdleOrch /\ call \in ChatCalls /\ rate_hits \in ChatPriorHits
       \/ IdleOrch /\ call \in KeyedHistoryCalls /\ rate_hits = <<>>
       \/ /\ call \in StatusCalls
          /\ rate_hits = <<>>
          /\ input_data = <<QueryDocument>>
          /\ batchStatus = "Pending"
          /\ batchOutput = <<>>
          /\ batchFailure = <<>>
          /\ batchCompletions = 0
          /\ child = <<NewChild>>
          /\ finishOrder = <<>>
    /\ accepted = rate_hits

NextAuth ==
    \/ StartOrchestratorHttp
    \/ DirectChat
    \/ StatusRequest
    \/ RunListHistory
    \/ RunOrchestrator
    \/ \E i \in Children : ProcessBlobStart(i)
    \/ \E i \in Children : ActivityReturns(i)
    \/ TaskAllCompletes

AuthSpec == InitAuth /\ [][NextAuth]_vars

\* A handler answers the request held in `call` in this step.
RequestHandled == call.fn # None /\ (requests' # requests \/ response' # response)

\* The request carries no key, or one that differs from the configured key
\* once surrounding whitespace is removed.
KeyMismatch ==
    \/ call.req.supplied_key = NoneText
    \/ Strip(call.req.supplied_key) # API_KEY

\* The answer carries no instance id, status, output, history or chat text.
CarriesNothing(fn, resp) ==
    IF fn = "start" THEN resp.instanceId = NoneText
    ELSE IF fn \in {"status", "results"}
    THEN resp.instanceId = NoneText /\ resp.runtimeStatus = None /\ resp.output = NoOutput
    ELSE IF fn = "history" THEN resp.items = <<>>
    ELSE resp.response = NoneText

C31_StatusWitness ==
    /\ API_KEY = Key
    /\ call.fn = "status"
    /\ call.req.supplied_key = NoneText
    /\ call.req.instanceId = BatchId
    /\ batchStatus = "Completed"
    /\ requests > 0
    /\ response.code = 401

\* With no key configured a request with a stray key starts an orchestration.
C31_OpenWitness ==
    /\ API_KEY = NoneText
    /\ call.fn = "start"
    /\ call.req.supplied_key = <<"x">>
    /\ response.code = 202
    /\ Len(startLog) = 1

\* The hits of the start queue that are not older than the window when the
\* request of this step arrives.
LiveHits == {k \in DOMAIN rate_hits : now' - rate_hits[k] <= StartRateWindow}

\* C32: start_orchestrator_http checks the key first (401 whatever the queue
\* and the payload), then the rate limiter (429 whatever the payload, no hit
\* recorded), then the payload; a request that passed the first two records
\* one hit at its arrival time whether it is then started or rejected, and an
\* instance is started only if all three checks passed.
C32_AuthThenRateThenValidate ==
    [][HttpStartHandled =>
          LET authorised == API_KEY = NoneText \/ ~KeyMismatch
              full == Cardinality(LiveHits) >= StartRateLimit
          IN  /\ ~authorised =>
                    /\ response'.code = 401
                    /\ UNCHANGED <<rate_hits, accepted, startLog>>
              /\ (authorised /\ full) =>
                    /\ response'.code = 429
                    /\ UNCHANGED <<accepted, startLog>>
              /\ (authorised /\ ~full) =>
                    /\ accepted' = Append(accepted, now')
                    /\ rate_hits' # <<>> /\ rate_hits'[Len(rate_hits')] = now'
                    /\ response'.code \in {202, 400, 500}
                    /\ response'.code = 202 <=> ~Malformed(call.req.body)
              /\ startLog' # startLog =>
                    /\ authorised /\ ~full /\ ~Malformed(call.req.body)
                    /\ response'.code = 202]_vars

\* C32 witness: on a queue with one slot left, a request with an empty list
\* took the slot and was answered 400, and the same request sent again is
\* answered 429; nothing was started.
C32_Witness ==
    /\ call.fn = "start"
    /\ call.req.body = ListBody(<<>>)
    /\ requests = 2
    /\ response.code = 429
    /\ Len(accepted) = StartRateLimit
    /\ accepted[StartRateLimit] > 0
    /\ rate_hits = accepted
    /\ startLog = <<>>

====
